-------------------------- MODULE Spec2Model --------------------------
(* A model of github.com/mxpaul/misery: RegisterMetrics walks the fields  *)
(* of a struct, builds a prometheus CounterVec / HistogramVec for every   *)
(* field of such a type from the field's `misery` struct tag, stores the  *)
(* collector into the field and registers it with a prometheus registry.  *)
(*                                                                        *)
(* Go strings are sequences of one-character strings, so that the         *)
(* snake-case conversion of a field name is computed and not assumed.     *)
(* A float64 is held in thousandths (0.1 is 100); an int64 or int32 is    *)
(* held in units, so widening an integer to float64 multiplies by 1000.   *)
EXTENDS Integers, Sequences, FiniteSets, TLC

VARIABLES
    structs,    \* the metric structs of the program: declared fields and their values
    registry,   \* the collectors the prometheus registry holds
    ret,        \* the last RegisterMetrics call: its argument and the error returned
    calls,      \* number of RegisterMetrics calls made (names the collectors created)
    fieldName,  \* factory run: the struct field name given to the factory
    fieldType,  \* factory run: the declared type of that field
    fieldDefs,  \* factory run: the parsed tag definitions of that field
    made        \* factory run: what the factory returned

vars == <<structs, registry, ret, calls, fieldName, fieldType, fieldDefs, made>>

-----------------------------------------------------------------------------
(* Bounds *)

MaxDefs == 3      \* tag definitions on the field given to the factory
MaxFields == 2    \* fields of a struct
MaxCalls == 2     \* RegisterMetrics calls in one run

-----------------------------------------------------------------------------
(* Go values: the dynamic values stagparser puts into Attributes() *)

GoNil == [type |-> "nil", s |-> <<>>, n |-> 0, l |-> <<>>]
GoString(cs) == [type |-> "string", s |-> cs, n |-> 0, l |-> <<>>]
GoInt64(v) == [type |-> "int64", s |-> <<>>, n |-> v, l |-> <<>>]
GoInt32(v) == [type |-> "int32", s |-> <<>>, n |-> v, l |-> <<>>]
GoFloat64(milli) == [type |-> "float64", s |-> <<>>, n |-> milli, l |-> <<>>]
GoList(elems) == [type |-> "list", s |-> <<>>, n |-> 0, l |-> elems]

\* float64(b) for an integer b, in thousandths
Float64OfInt(v) == v * 1000

\* attrs[key] of a Go map: the value, or nil when the key is absent
MapGet(attrs, key) == IF key \in DOMAIN attrs THEN attrs[key] ELSE GoNil

\* a stagparser.Definition: Name() and Attributes()
Def(name, attrs) == [name |-> name, attrs |-> attrs]

\* the definition of a `key=value` clause
Clause(key, value) == Def(key, key :> value)

-----------------------------------------------------------------------------
(* Errors: the sentinel at the bottom of the %w chain, the messages      *)
(* wrapped around it (outermost first), the attribute or field named.    *)

NoErr == [sentinel |-> "nil", ctx |-> <<>>, attr |-> "", field |-> <<>>]
Wrap(msg, err) == [err EXCEPT !.ctx = <<msg>> \o @]

ErrStructPointerRequired == [sentinel |-> "ErrStructPointerRequired", ctx |-> <<>>, attr |-> "", field |-> <<>>]
ErrAttributeMalformed == [sentinel |-> "ErrAttributeMalformed", ctx |-> <<>>, attr |-> "", field |-> <<>>]

-----------------------------------------------------------------------------
(* strcase.ToSnake *)

upperLetters == <<"A","B","C","D","E","F","G","H","I","J","K","L","M",
                  "N","O","P","Q","R","S","T","U","V","W","X","Y","Z">>
lowerLetters == <<"a","b","c","d","e","f","g","h","i","j","k","l","m",
                  "n","o","p","q","r","s","t","u","v","w","x","y","z">>
digits == {"0","1","2","3","4","5","6","7","8","9"}

IsCap(c) == \E i \in DOMAIN upperLetters : upperLetters[i] = c
IsLow(c) == \E i \in DOMAIN lowerLetters : lowerLetters[i] = c
IsNum(c) == c \in digits
ToLowerByte(c) ==
    IF IsCap(c) THEN lowerLetters[CHOOSE i \in DOMAIN upperLetters : upperLetters[i] = c]
    ELSE c

\* what ToSnake writes for the byte at position i of s
SnakeByte(s, i) ==
    LET v == s[i]
        out == ToLowerByte(v)
        hasNext == i + 1 <= Len(s)
        next == s[i + 1]
        changes == /\ hasNext
                   /\ \/ IsCap(v) /\ (IsLow(next) \/ IsNum(next))
                      \/ IsLow(v) /\ (IsCap(next) \/ IsNum(next))
                      \/ IsNum(v) /\ (IsCap(next) \/ IsLow(next))
    IN  IF changes
        THEN (IF IsCap(v) /\ IsLow(next) /\ i > 1 /\ IsCap(s[i - 1]) THEN <<"_">> ELSE <<>>)
             \o <<out>>
             \o (IF IsLow(v) \/ IsNum(v) \/ IsNum(next) THEN <<"_">> ELSE <<>>)
        ELSE IF v \in {" ", "_", "-", "."} THEN <<"_">> ELSE <<out>>

RECURSIVE SnakeFrom(_, _)
SnakeFrom(s, i) == IF i > Len(s) THEN <<>> ELSE SnakeByte(s, i) \o SnakeFrom(s, i + 1)

ToSnake(s) == SnakeFrom(s, 1)

-----------------------------------------------------------------------------
(* Collectors *)

\* reflect.TypeOf((*prometheus.CounterVec)(nil)), reflect.TypeOf((*prometheus.HistogramVec)(nil))
prometheusCounterType == "*prometheus.CounterVec"
prometheusHistogramType == "*prometheus.HistogramVec"

NoID == [call |-> 0, struct |-> 0, field |-> 0]

\* the nil pointer a collector field holds before it is written
NilCollector ==
    [id |-> NoID, kind |-> "nil", name |-> <<>>, help |-> <<>>, labels |-> <<>>, buckets |-> <<>>]

\* prometheus.NewCounterVec(prometheus.CounterOpts{Name: name, Help: help}, labels)
NewCounterVec(name, help, labels) ==
    [id |-> NoID, kind |-> "CounterVec", name |-> name, help |-> help,
     labels |-> labels, buckets |-> <<>>]

\* prometheus.NewHistogramVec(opt, labels)
NewHistogramVec(opt, labels) ==
    [id |-> NoID, kind |-> "HistogramVec", name |-> opt.Name, help |-> opt.Help,
     labels |-> labels, buckets |-> opt.Buckets]

\* []float64{0.001, 0.01, 0.05, 0.1, 0.2, 0.3, 0.5, 1.0, 2.0, 10, 20}
DefaultBuckets == <<1, 10, 50, 100, 200, 300, 500, 1000, 2000, 10000, 20000>>


-----------------------------------------------------------------------------
(* createPrometheusCounter *)

Malformed(msg) == Wrap(msg, ErrAttributeMalformed)
Unsupported(attrName) == [Wrap("unsupported attribute", ErrAttributeMalformed) EXCEPT !.attr = attrName]

\* the loop over the elements of a labels list: each string is appended
RECURSIVE appendLabels(_, _, _)
appendLabels(labels, list, i) ==
    IF i > Len(list) THEN [labels |-> labels, err |-> NoErr]
    ELSE IF list[i].type = "string"
         THEN appendLabels(Append(labels, list[i].s), list, i + 1)
         ELSE [labels |-> labels, err |-> Malformed("label is not a string")]

counterName(st, value) ==
    IF value.type = "string"
    THEN [st |-> [st EXCEPT !.name = value.s], err |-> NoErr]
    ELSE [st |-> st, err |-> Malformed("name is not a string")]

\* variant: a labels clause replaces the labels of the clauses before it
counterLabels_LastWins(st, value) ==
    IF value.type = "list"
    THEN LET r == appendLabels(<<>>, value.l, 1)
         IN  [st |-> [st EXCEPT !.labels = r.labels], err |-> r.err]
    ELSE [st |-> st, err |-> Malformed("labels is not a list")]

counterLabels(st, value) ==
    IF value.type = "list"
    THEN LET r == appendLabels(st.labels, value.l, 1)
         IN  [st |-> [st EXCEPT !.labels = r.labels], err |-> r.err]
    ELSE [st |-> st, err |-> Malformed("labels is not a list")]

counterHelp(st, value) ==
    IF value.type = "string"
    THEN [st |-> [st EXCEPT !.help = value.s], err |-> NoErr]
    ELSE [st |-> st, err |-> Malformed("help is not a string")]

\* the body of the loop over the definitions: the switch on def.Name()
counterDef(st, def) ==
    LET attrName == def.name
        value == MapGet(def.attrs, attrName)
    IN  CASE attrName = "name" -> counterName(st, value)
          [] attrName = "labels" -> counterLabels(st, value)
          [] attrName = "help" -> counterHelp(st, value)
          [] OTHER -> [st |-> st, err |-> Unsupported(attrName)]

RECURSIVE counterLoop(_, _, _)
counterLoop(st, defs, i) ==
    IF i > Len(defs)
    THEN [collector |-> NewCounterVec(st.name, st.help, st.labels), err |-> NoErr]
    ELSE LET r == counterDef(st, defs[i])
         IN  IF r.err # NoErr
             THEN [collector |-> NilCollector, err |-> r.err]
             ELSE counterLoop(r.st, defs, i + 1)

\* variant: the default name is the field name as declared
createPrometheusCounter_RawName(structFieldName, defs) ==
    counterLoop([name |-> structFieldName, labels |-> <<>>, help |-> <<>>], defs, 1)

createPrometheusCounter(structFieldName, defs) ==
    counterLoop([name |-> ToSnake(structFieldName), labels |-> <<>>, help |-> <<>>], defs, 1)

-----------------------------------------------------------------------------
(* createPrometheusHistogram *)

histogramName(st, value) ==
    IF value.type = "string"
    THEN [st |-> [st EXCEPT !.opt.Name = value.s], err |-> NoErr]
    ELSE [st |-> st, err |-> Malformed("name is not a string")]

histogramLabels(st, value) ==
    IF value.type = "list"
    THEN LET r == appendLabels(st.labels, value.l, 1)
         IN  [st |-> [st EXCEPT !.labels = r.labels], err |-> r.err]
    ELSE [st |-> st, err |-> Malformed("labels is not a list")]

\* variant: the help case assigns opt.Name
histogramHelp_SetsName(st, value) ==
    IF value.type = "string"
    THEN [st |-> [st EXCEPT !.opt.Name = value.s], err |-> NoErr]
    ELSE [st |-> st, err |-> Malformed("help is not a string")]

histogramHelp(st, value) ==
    IF value.type = "string"
    THEN [st |-> [st EXCEPT !.opt.Help = value.s], err |-> NoErr]
    ELSE [st |-> st, err |-> Malformed("help is not a string")]

\* the loop over the elements of a buckets list: the type switch on each element
RECURSIVE appendBuckets(_, _, _)
appendBuckets(buckets, list, i) ==
    IF i > Len(list) THEN [buckets |-> buckets, err |-> NoErr]
    ELSE CASE list[i].type = "float64" -> appendBuckets(Append(buckets, list[i].n), list, i + 1)
           [] list[i].type = "int32" -> appendBuckets(Append(buckets, Float64OfInt(list[i].n)), list, i + 1)
           [] list[i].type = "int64" -> appendBuckets(Append(buckets, Float64OfInt(list[i].n)), list, i + 1)
           [] OTHER -> [buckets |-> buckets, err |-> Malformed("bucket is not a float64")]

\* variant: the buckets are appended to the ladder held so far
histogramBuckets_Merge(st, value) ==
    IF value.type = "list"
    THEN LET r == appendBuckets(st.opt.Buckets, value.l, 1)
         IN  [st |-> [st EXCEPT !.opt.Buckets = r.buckets], err |-> r.err]
    ELSE [st |-> st, err |-> Malformed("buckets is not a list of floats")]

\* opt.Buckets = make([]float64, 0, len(...)), then the appends
histogramBuckets(st, value) ==
    IF value.type = "list"
    THEN LET r == appendBuckets(<<>>, value.l, 1)
         IN  [st |-> [st EXCEPT !.opt.Buckets = r.buckets], err |-> r.err]
    ELSE [st |-> st, err |-> Malformed("buckets is not a list of floats")]

histogramDef(st, def) ==
    LET attrName == def.name
        value == MapGet(def.attrs, attrName)
    IN  CASE attrName = "name" -> histogramName(st, value)
          [] attrName = "labels" -> histogramLabels(st, value)
          [] attrName = "help" -> histogramHelp(st, value)
          [] attrName = "buckets" -> histogramBuckets(st, value)
          [] OTHER -> [st |-> st, err |-> Unsupported(attrName)]

RECURSIVE histogramLoop(_, _, _)
histogramLoop(st, defs, i) ==
    IF i > Len(defs)
    THEN [collector |-> NewHistogramVec(st.opt, st.labels), err |-> NoErr]
    ELSE LET r == histogramDef(st, defs[i])
         IN  IF r.err # NoErr
             THEN [collector |-> NilCollector, err |-> r.err]
             ELSE histogramLoop(r.st, defs, i + 1)

createPrometheusHistogram(structFieldName, defs) ==
    histogramLoop([opt |-> [Name |-> ToSnake(structFieldName), Help |-> <<>>,
                            Buckets |-> DefaultBuckets],
                   labels |-> <<>>], defs, 1)

-----------------------------------------------------------------------------
(* Structs and the arguments of RegisterMetrics *)

\* a struct tag: no `misery` key, text stagparser parses into defs, or text it rejects
NoTag == [text |-> "none", defs |-> <<>>]
Tag(defs) == [text |-> "ok", defs |-> defs]
BadTag == [text |-> "unparseable", defs |-> <<>>]

Field(name, type, tag) == [name |-> name, type |-> type, tag |-> tag]

\* a struct value: the declared fields and what each field holds (a collector
\* field starts as a nil pointer; a field of another type never changes)
NewStruct(fields) == [fields |-> fields, vals |-> [i \in DOMAIN fields |-> NilCollector]]

\* the interface{} argument: whether it is a pointer, the kind of what it is or
\* points to, and the struct meant (0: none)
Arg(ptr, kind, target) == [ptr |-> ptr, kind |-> kind, target |-> target]
NoArg == Arg(FALSE, "none", 0)
NoCall == [called |-> FALSE, arg |-> NoArg, err |-> NoErr]

-----------------------------------------------------------------------------
(* unpackStruct, parseStructTags *)

\* variant: the Kind() != reflect.Ptr test is missing
unpackStruct_NoPtrCheck(in) ==
    IF in.kind # "struct" THEN [val |-> 0, err |-> ErrStructPointerRequired]
    ELSE [val |-> in.target, err |-> NoErr]

unpackStruct(in) ==
    IF ~in.ptr THEN [val |-> 0, err |-> ErrStructPointerRequired]
    ELSE IF in.kind # "struct" THEN [val |-> 0, err |-> ErrStructPointerRequired]
    ELSE [val |-> in.target, err |-> NoErr]

\* stagparser.ParseStruct: every field with a tag is parsed, in declaration
\* order, whatever its type; the first tag it rejects ends the parse
ParseStruct(fields) ==
    IF \E i \in DOMAIN fields : fields[i].tag.text = "unparseable"
    THEN LET k == CHOOSE i \in DOMAIN fields :
                      /\ fields[i].tag.text = "unparseable"
                      /\ \A j \in 1..(i - 1) : fields[j].tag.text # "unparseable"
         IN  [defs |-> <<>>,
              err |-> [sentinel |-> "AnnotationParseError", ctx |-> <<>>, attr |-> "",
                       field |-> fields[k].name]]
    ELSE [defs |-> [n \in {fields[i].name : i \in {j \in DOMAIN fields : fields[j].tag.text = "ok"}} |->
                        LET i == CHOOSE j \in DOMAIN fields : fields[j].name = n
                        IN  fields[i].tag.defs],
          err |-> NoErr]

parseStructTags(fields) ==
    LET r == ParseStruct(fields)
    IN  IF r.err # NoErr
        THEN [tags |-> <<>>, err |-> Wrap("tag parse error", r.err)]
        ELSE [tags |-> r.defs, err |-> NoErr]

\* tags[typeField.Name]: the definitions, or a nil slice for a field without tag
TagsOf(tags, name) == IF name \in DOMAIN tags THEN tags[name] ELSE <<>>

-----------------------------------------------------------------------------
(* The registry *)

\* registry.Register(collector): fails when the registry holds a collector of
\* the same exposed name
Register(reg, collector) ==
    IF \E c \in reg : c.name = collector.name
    THEN [reg |-> reg,
          err |-> [sentinel |-> "RegistrationConflict", ctx |-> <<>>, attr |-> "", field |-> <<>>]]
    ELSE [reg |-> reg \cup {collector}, err |-> NoErr]

-----------------------------------------------------------------------------
(* registerMetricsByTags *)

\* variant: the default case returns ErrTypeNotSupported
createCollector_TypeNotSupported(typeField, tags) ==
    CASE typeField.type = prometheusCounterType ->
           LET r == createPrometheusCounter(typeField.name, TagsOf(tags, typeField.name))
           IN  [skip |-> FALSE, collector |-> r.collector,
                err |-> IF r.err = NoErr THEN NoErr
                        ELSE Wrap("createPrometheusCounter failed", r.err)]
      [] typeField.type = prometheusHistogramType ->
           LET r == createPrometheusHistogram(typeField.name, TagsOf(tags, typeField.name))
           IN  [skip |-> FALSE, collector |-> r.collector,
                err |-> IF r.err = NoErr THEN NoErr
                        ELSE Wrap("createPrometheusHistogram failed", r.err)]
      [] OTHER -> [skip |-> FALSE, collector |-> NilCollector,
                   err |-> [sentinel |-> "ErrTypeNotSupported", ctx |-> <<>>, attr |-> "",
                            field |-> <<>>]]

\* the type switch of the loop body: the collector built for the field
createCollector(typeField, tags) ==
    CASE typeField.type = prometheusCounterType ->
           LET r == createPrometheusCounter(typeField.name, TagsOf(tags, typeField.name))
           IN  [skip |-> FALSE, collector |-> r.collector,
                err |-> IF r.err = NoErr THEN NoErr
                        ELSE Wrap("createPrometheusCounter failed", r.err)]
      [] typeField.type = prometheusHistogramType ->
           LET r == createPrometheusHistogram(typeField.name, TagsOf(tags, typeField.name))
           IN  [skip |-> FALSE, collector |-> r.collector,
                err |-> IF r.err = NoErr THEN NoErr
                        ELSE Wrap("createPrometheusHistogram failed", r.err)]
      [] OTHER -> [skip |-> TRUE, collector |-> NilCollector, err |-> NoErr]

\* variant: the error of Register is dropped
setAndRegister_IgnoresError(vals, reg, i, collector, name) ==
    LET r == Register(reg, collector)
    IN  [vals |-> [vals EXCEPT ![i] = collector], reg |-> r.reg, err |-> NoErr]

\* variant: the field is set only after Register succeeded
setAndRegister_RegisterFirst(vals, reg, i, collector, name) ==
    LET r == Register(reg, collector)
    IN  [vals |-> IF r.err = NoErr THEN [vals EXCEPT ![i] = collector] ELSE vals,
         reg |-> r.reg,
         err |-> IF r.err = NoErr THEN NoErr
                 ELSE [Wrap("collector register failed", r.err) EXCEPT !.field = name]]

\* field.Set(collector), then registry.Register(collector)
setAndRegister(vals, reg, i, collector, name) ==
    LET r == Register(reg, collector)
    IN  [vals |-> [vals EXCEPT ![i] = collector],
         reg |-> r.reg,
         err |-> IF r.err = NoErr THEN NoErr
                 ELSE [Wrap("collector register failed", r.err) EXCEPT !.field = name]]

\* the loop over the fields, from field i on; alloc names the collectors made
RECURSIVE fieldLoop(_, _, _, _, _, _)
fieldLoop(fields, vals, tags, reg, i, alloc) ==
    IF i > Len(fields) THEN [vals |-> vals, reg |-> reg, err |-> NoErr]
    ELSE LET c == createCollector(fields[i], tags)
         IN  IF c.skip THEN fieldLoop(fields, vals, tags, reg, i + 1, alloc)
             ELSE IF c.err # NoErr THEN [vals |-> vals, reg |-> reg, err |-> c.err]
             ELSE LET live == [c.collector EXCEPT !.id = [alloc EXCEPT !.field = i]]
                      r == setAndRegister(vals, reg, i, live, fields[i].name)
                  IN  IF r.err # NoErr THEN r
                      ELSE fieldLoop(fields, r.vals, tags, r.reg, i + 1, alloc)

\* variant: a factory error undoes the fields and registrations of the call
registerMetricsByTags_Rollback(structValue, tags, reg, alloc) ==
    LET r == fieldLoop(structValue.fields, structValue.vals, tags, reg, 1, alloc)
    IN  IF r.err.sentinel = "ErrAttributeMalformed"
        THEN [vals |-> structValue.vals, reg |-> reg, err |-> r.err]
        ELSE r

registerMetricsByTags(structValue, tags, reg, alloc) ==
    fieldLoop(structValue.fields, structValue.vals, tags, reg, 1, alloc)

-----------------------------------------------------------------------------
(* RegisterMetrics *)

\* the outcome of RegisterMetrics(in, registry) in a program holding the
\* structs ss: the values of the struct's fields, the registry and the error
RegisterMetrics(in, ss, reg, call) ==
    LET u == unpackStruct(in)
    IN  IF u.err # NoErr
        THEN [structs |-> ss, reg |-> reg, err |-> Wrap("struct unpack error", u.err)]
        ELSE LET p == parseStructTags(ss[u.val].fields)
             IN  IF p.err # NoErr
                 THEN [structs |-> ss, reg |-> reg, err |-> Wrap("struct tag parse error", p.err)]
                 ELSE LET r == registerMetricsByTags(ss[u.val], p.tags, reg,
                                   [call |-> call, struct |-> u.val, field |-> 0])
                      IN  [structs |-> [ss EXCEPT ![u.val].vals = r.vals],
                           reg |-> r.reg, err |-> r.err]

-----------------------------------------------------------------------------
(* Inputs: field names, attribute values and tag definitions *)

Name_rq == <<"r", "q">>
Name_ab_c == <<"a", "b", "_", "c">>
Label_x == <<"x">>
Label_y == <<"y">>
Help_1 == <<"h", "1">>
Help_2 == <<"h", "2">>

\* clauses the factories accept
DefNameRq == Clause("name", GoString(Name_rq))
DefNameAbC == Clause("name", GoString(Name_ab_c))
DefLabelsXY == Clause("labels", GoList(<<GoString(Label_x), GoString(Label_y)>>))
DefLabelsY == Clause("labels", GoList(<<GoString(Label_y)>>))
DefHelp1 == Clause("help", GoString(Help_1))
DefHelp2 == Clause("help", GoString(Help_2))
\* buckets=[0.5, 0.1, 1]: unsorted, the last element an integer
DefBucketsA == Clause("buckets", GoList(<<GoFloat64(500), GoFloat64(100), GoInt64(1)>>))
DefBucketsB == Clause("buckets", GoList(<<GoInt32(2)>>))
\* clauses with a value of the wrong shape
DefNameInt == Clause("name", GoInt64(1))
DefLabelsStr == Clause("labels", GoString(Label_x))
DefLabelsMixed == Clause("labels", GoList(<<GoString(Label_x), GoInt64(1)>>))
DefHelpNoValue == Def("help", "text" :> GoString(Help_1))
DefBucketsStr == Clause("buckets", GoList(<<GoFloat64(100), GoString(Label_x)>>))
\* an attribute-set name no factory knows
DefFoo == Clause("foo", GoString(Label_x))

DefPool ==
    {DefNameRq, DefNameAbC, DefLabelsXY, DefLabelsY, DefHelp1, DefHelp2,
     DefBucketsA, DefBucketsB, DefNameInt, DefLabelsStr, DefLabelsMixed,
     DefHelpNoValue, DefBucketsStr, DefFoo}

FactoryFieldNames == {<<"A", "b", "C">>, <<"A", "B", "c", "2">>}

SeqsUpTo(S, n) == UNION {[1..k -> S] : k \in 0..n}

NotMade == [called |-> FALSE, collector |-> NilCollector, err |-> NoErr]
Made(r) == [called |-> TRUE, collector |-> r.collector, err |-> r.err]

-----------------------------------------------------------------------------
(* The factories applied to one field *)

FactoryIdle ==
    /\ structs = <<>>
    /\ registry = {}
    /\ ret = NoCall
    /\ calls = 0

FactoryInit ==
    /\ FactoryIdle
    /\ fieldName \in FactoryFieldNames
    /\ fieldType \in {prometheusCounterType, prometheusHistogramType}
    /\ fieldDefs \in SeqsUpTo(DefPool, MaxDefs)
    /\ made = NotMade

CreateCounter ==
    /\ ~made.called
    /\ fieldType = prometheusCounterType
    /\ made' = Made(createPrometheusCounter(fieldName, fieldDefs))
    /\ UNCHANGED <<structs, registry, ret, calls, fieldName, fieldType, fieldDefs>>

CreateHistogram ==
    /\ ~made.called
    /\ fieldType = prometheusHistogramType
    /\ made' = Made(createPrometheusHistogram(fieldName, fieldDefs))
    /\ UNCHANGED <<structs, registry, ret, calls, fieldName, fieldType, fieldDefs>>

FactoryNext == CreateCounter \/ CreateHistogram

SpecFactory == FactoryInit /\ [][FactoryNext]_vars

-----------------------------------------------------------------------------
(* The program: two metric structs, one registry, RegisterMetrics calls *)

\* fields a metric struct may declare
FieldAb == Field(<<"A", "b">>, prometheusCounterType, NoTag)
FieldCn == Field(<<"C", "n">>, prometheusCounterType, Tag(<<Clause("name", GoString(<<"a", "b">>)), DefLabelsXY, DefHelp1>>))
FieldHdC == Field(<<"H", "d", "C">>, prometheusHistogramType, Tag(<<DefLabelsXY, DefBucketsA>>))
FieldBk == Field(<<"B", "k">>, prometheusCounterType, Tag(<<DefHelp2, DefBucketsA>>))
FieldHd == Field(<<"H", "d">>, prometheusHistogramType, NoTag)
FieldN == Field(<<"N">>, "int", Tag(<<Clause("name", GoString(<<"a", "b">>))>>))
FieldM == Field(<<"M">>, "int", NoTag)
FieldU == Field(<<"U">>, "string", BadTag)

\* the fields of the first struct: any of them; of the second: collector
\* fields whose tags the factories accept
FieldPool == {FieldAb, FieldCn, FieldHdC, FieldHd, FieldBk, FieldN, FieldM, FieldU}
PlainFieldPool == {FieldAb, FieldCn, FieldHdC}

\* the field lists of the struct types: distinct fields, in declaration order
StructTypes(pool) ==
    {fs \in SeqsUpTo(pool, MaxFields) : \A i, j \in DOMAIN fs : i # j => fs[i].name # fs[j].name}

StructIds == {1, 2}

Args ==
    {Arg(TRUE, "struct", s) : s \in StructIds}
        \cup {Arg(FALSE, "struct", 1), Arg(TRUE, "int", 0)}

Init ==
    /\ \E t1 \in StructTypes(FieldPool), t2 \in StructTypes(PlainFieldPool) :
           structs = <<NewStruct(t1), NewStruct(t2)>>
    /\ registry = {}
    /\ ret = NoCall
    /\ calls = 0
    /\ fieldName = <<>>
    /\ fieldType = ""
    /\ fieldDefs = <<>>
    /\ made = NotMade

\* misery.RegisterMetrics(in, registry)
Call(in) ==
    /\ calls < MaxCalls
    /\ LET r == RegisterMetrics(in, structs, registry, calls + 1)
       IN  /\ structs' = r.structs
           /\ registry' = r.reg
           /\ ret' = [called |-> TRUE, arg |-> in, err |-> r.err]
    /\ calls' = calls + 1
    /\ UNCHANGED <<fieldName, fieldType, fieldDefs, made>>

Next == \E in \in Args : Call(in)

Spec == Init /\ [][Next]_vars

-----------------------------------------------------------------------------
(* Properties of the factories, under SpecFactory *)

ClausesNamed(defs, key) == SelectSeq(defs, LAMBDA d : d.name = key)
LastOf(seq) == seq[Len(seq)]
ValueOf(def) == MapGet(def.attrs, def.name)
StringsOf(list) == [i \in DOMAIN list |-> list[i].s]
\* the numbers of a buckets list as float64, in thousandths
WidenedOf(list) ==
    [i \in DOMAIN list |-> IF list[i].type = "float64" THEN list[i].n ELSE list[i].n * 1000]

RECURSIVE AllLabels(_)
AllLabels(defs) ==
    IF Len(defs) = 0 THEN <<>>
    ELSE (IF Head(defs).name = "labels" THEN StringsOf(ValueOf(Head(defs)).l) ELSE <<>>)
             \o AllLabels(Tail(defs))

Factory(type, name, defs) ==
    IF type = prometheusCounterType THEN createPrometheusCounter(name, defs)
    ELSE createPrometheusHistogram(name, defs)

MadeOk == made.called /\ made.err = NoErr

\* C7: name and help (both kinds) and buckets (histograms) resolve to the value
\* of the last clause of that attribute-set name; the buckets of that clause
\* replace the ladder, in the order given, integers widened to float64.
C7_LastClauseWins ==
    MadeOk =>
        /\ Len(ClausesNamed(fieldDefs, "name")) > 0 =>
               made.collector.name = ValueOf(LastOf(ClausesNamed(fieldDefs, "name"))).s
        /\ Len(ClausesNamed(fieldDefs, "help")) > 0 =>
               made.collector.help = ValueOf(LastOf(ClausesNamed(fieldDefs, "help"))).s
        /\ (fieldType = prometheusHistogramType /\ Len(ClausesNamed(fieldDefs, "buckets")) > 0) =>
               made.collector.buckets = WidenedOf(ValueOf(LastOf(ClausesNamed(fieldDefs, "buckets"))).l)

\* a histogram made from two different name= clauses and buckets=[0.5, 0.1, 1]
C7_Witness ==
    /\ MadeOk
    /\ fieldType = prometheusHistogramType
    /\ fieldDefs = <<DefNameRq, DefNameAbC, DefBucketsA>>
    /\ made.collector.name = Name_ab_c
    /\ made.collector.buckets = <<500, 100, 1000>>

\* C8: a component with no clause of its own attribute-set name keeps its
\* default (snake-case field name, empty help, no labels, the built-in ladder),
\* and each component is what the clauses of its own name alone resolve to.
C8_DefaultsAndFrame ==
    MadeOk =>
        /\ Len(ClausesNamed(fieldDefs, "name")) = 0 => made.collector.name = ToSnake(fieldName)
        /\ Len(ClausesNamed(fieldDefs, "help")) = 0 => made.collector.help = <<>>
        /\ Len(ClausesNamed(fieldDefs, "labels")) = 0 => made.collector.labels = <<>>
        /\ (fieldType = prometheusHistogramType /\ Len(ClausesNamed(fieldDefs, "buckets")) = 0) =>
               made.collector.buckets = DefaultBuckets
        /\ made.collector.name =
               Factory(fieldType, fieldName, ClausesNamed(fieldDefs, "name")).collector.name
        /\ made.collector.help =
               Factory(fieldType, fieldName, ClausesNamed(fieldDefs, "help")).collector.help
        /\ made.collector.labels =
               Factory(fieldType, fieldName, ClausesNamed(fieldDefs, "labels")).collector.labels
        /\ fieldType = prometheusHistogramType =>
               made.collector.buckets =
                   Factory(fieldType, fieldName, ClausesNamed(fieldDefs, "buckets")).collector.buckets

\* a histogram field AbC with help and labels clauses only: name and ladder are the defaults
C8_Witness ==
    /\ MadeOk
    /\ fieldType = prometheusHistogramType
    /\ fieldName = <<"A", "b", "C">>
    /\ fieldDefs = <<DefHelp1, DefLabelsY>>
    /\ made.collector.name = <<"a", "b", "_", "c">>
    /\ made.collector.help = Help_1
    /\ made.collector.buckets = DefaultBuckets

\* C10: the labels are the elements of every labels= clause, concatenated in
\* parse order: repeated clauses accumulate and duplicates are kept.
C10_LabelsAccumulate ==
    MadeOk => made.collector.labels = AllLabels(fieldDefs)

\* a counter with labels=[x,y] and later labels=[y]: x, y, y
C10_Witness ==
    /\ MadeOk
    /\ fieldType = prometheusCounterType
    /\ fieldDefs = <<DefLabelsXY, DefNameRq, DefLabelsY>>
    /\ made.collector.labels = <<Label_x, Label_y, Label_y>>

-----------------------------------------------------------------------------
(* Properties of RegisterMetrics, under Spec *)

IsCollectorField(f) == f.type \in {prometheusCounterType, prometheusHistogramType}
CollectorFields(s) == {i \in DOMAIN structs[s].fields : IsCollectorField(structs[s].fields[i])}
PtrTo(s) == Arg(TRUE, "struct", s)
Parses(fields) == \A i \in DOMAIN fields : fields[i].tag.text # "unparseable"
\* what the factory of field i of struct s returns
Built(s, i) ==
    createCollector(structs[s].fields[i], parseStructTags(structs[s].fields).tags)
\* the step is a call RegisterMetrics(in, registry)
Calling(in) == calls' = calls + 1 /\ ret'.arg = in
RegisteredNames == {c.name : c \in registry}
MinOf(S) == CHOOSE i \in S : \A j \in S : i <= j

\* C6: a call whose argument is not a pointer to a struct fails with
\* ErrStructPointerRequired wrapped in "struct unpack error", whatever the tags
\* are; a call on a pointer to a struct with an unparseable tag fails with the
\* parse error wrapped in "struct tag parse error"; neither writes a field or
\* registers a collector.
C6_UnpackThenParseThenLoop ==
    [][\A in \in Args :
         Calling(in) =>
           /\ (~in.ptr \/ in.kind # "struct") =>
                /\ ret'.err.sentinel = "ErrStructPointerRequired"
                /\ ret'.err.ctx = <<"struct unpack error">>
                /\ structs' = structs
                /\ registry' = registry
           /\ (in.ptr /\ in.kind = "struct" /\ ~Parses(structs[in.target].fields)) =>
                /\ ret'.err.sentinel = "AnnotationParseError"
                /\ ret'.err.ctx[1] = "struct tag parse error"
                /\ structs' = structs
                /\ registry' = registry]_vars

\* a call on a pointer to a struct whose second field has an unparseable tag:
\* the counter field before it is still nil
C6_Witness ==
    /\ ret.called
    /\ ret.arg = PtrTo(1)
    /\ ret.err.sentinel = "AnnotationParseError"
    /\ structs[1].fields = <<FieldAb, FieldU>>
    /\ structs[1].vals[1] = NilCollector
    /\ \A c \in registry : c.id.struct # 1

\* C3: when the loop reaches field k and its factory fails, the call returns
\* that error; the collector fields below k have been written with new
\* collectors which the registry now holds, nothing else has changed.
C3_FactoryFailureKeepsEarlierFields ==
    [][\A s \in StructIds : \A k \in CollectorFields(s) :
         LET below == {j \in CollectorFields(s) : j < k}
         IN  (/\ Calling(PtrTo(s))
              /\ Parses(structs[s].fields)
              /\ Built(s, k).err # NoErr
              /\ \A j \in below : Built(s, j).err = NoErr
              /\ \A j \in below : Built(s, j).collector.name \notin RegisteredNames
              /\ \A i, j \in below : i # j => Built(s, i).collector.name # Built(s, j).collector.name)
             =>
             /\ ret'.err = Built(s, k).err
             /\ \A j \in below :
                  /\ structs'[s].vals[j].id = [call |-> calls', struct |-> s, field |-> j]
                  /\ structs'[s].vals[j] \in registry'
             /\ \A j \in DOMAIN structs[s].fields \ below :
                  structs'[s].vals[j] = structs[s].vals[j]
             /\ registry' = registry \cup {structs'[s].vals[j] : j \in below}
             /\ \A o \in StructIds \ {s} : structs'[o] = structs[o]]_vars

\* the factory of the second field failed: the first field is written and registered
C3_Witness ==
    /\ ret.called
    /\ ret.arg = PtrTo(1)
    /\ ret.err.sentinel = "ErrAttributeMalformed"
    /\ structs[1].fields = <<FieldAb, FieldBk>>
    /\ structs[1].vals[1].id.call = calls
    /\ structs[1].vals[1] \in registry
    /\ structs[1].vals[2] = NilCollector

\* C1: after a successful RegisterMetrics(A), a call RegisterMetrics(B) on
\* another struct whose fields all resolve, one of them to a name of A, fails
\* with a registration conflict; every collector of A stays in the registry
\* and every collector field of A still holds it.
C1_SecondRecordConflicts ==
    [][\A a \in StructIds : \A b \in StructIds \ {a} :
         (/\ ret.called /\ ret.arg = PtrTo(a) /\ ret.err = NoErr
          /\ Calling(PtrTo(b))
          /\ Parses(structs[b].fields)
          /\ \A j \in CollectorFields(b) : Built(b, j).err = NoErr
          /\ \E i \in CollectorFields(a) : \E j \in CollectorFields(b) :
                 Built(a, i).collector.name = Built(b, j).collector.name)
         =>
         /\ ret'.err.sentinel = "RegistrationConflict"
         /\ registry \subseteq registry'
         /\ \A i \in CollectorFields(a) :
              /\ structs'[a].vals[i] = structs[a].vals[i]
              /\ structs'[a].vals[i] # NilCollector
              /\ structs'[a].vals[i] \in registry']_vars

\* struct 2 is registered, then struct 1 registers its histogram and fails on
\* its counter, whose name struct 2 holds
C1_Witness ==
    /\ calls = 2
    /\ ret.arg = PtrTo(1)
    /\ ret.err.sentinel = "RegistrationConflict"
    /\ structs[1].fields = <<FieldHd, FieldCn>>
    /\ structs[2].fields = <<FieldAb, FieldHdC>>
    /\ structs[1].vals[1] \in registry
    /\ \A i \in {1, 2} : structs[2].vals[i] \in registry /\ structs[2].vals[i].id.call = 1

\* C9: when the registry refuses the collector of field k, field k holds the
\* collector built in this call and the registry does not hold it; a second
\* call on a struct registered by the call before fails so on its first
\* collector field, whose earlier collector stays registered.
C9_FieldWrittenBeforeRegister ==
    [][\A s \in StructIds :
         /\ (Calling(PtrTo(s)) /\ ret'.err.sentinel = "RegistrationConflict") =>
              \E k \in CollectorFields(s) :
                /\ structs[s].fields[k].name = ret'.err.field
                /\ structs'[s].vals[k].id = [call |-> calls', struct |-> s, field |-> k]
                /\ structs'[s].vals[k] \notin registry'
                /\ \A j \in DOMAIN structs[s].fields : j > k =>
                       structs'[s].vals[j] = structs[s].vals[j]
         /\ (/\ ret.called /\ ret.arg = PtrTo(s) /\ ret.err = NoErr
             /\ CollectorFields(s) # {}
             /\ Calling(PtrTo(s)))
            =>
            LET k == MinOf(CollectorFields(s))
            IN  /\ ret'.err.sentinel = "RegistrationConflict"
                /\ ret'.err.field = structs[s].fields[k].name
                /\ structs[s].vals[k] \in registry'
                /\ structs'[s].vals[k] # structs[s].vals[k]
                /\ structs'[s].vals[k] \notin registry']_vars

\* struct 2 registered twice: its first field holds the collector of the
\* second call, the registry the one of the first call
C9_Witness ==
    /\ calls = 2
    /\ ret.arg = PtrTo(2)
    /\ ret.err.sentinel = "RegistrationConflict"
    /\ structs[2].fields = <<FieldHdC, FieldAb>>
    /\ structs[2].vals[1].id.call = 2
    /\ structs[2].vals[1] \notin registry
    /\ [structs[2].vals[1] EXCEPT !.id.call = 1] \in registry
    /\ structs[2].vals[2] \in registry

\* the collectors in the registry that were built for a field of struct s
FromStruct(s) == {c \in registry : c.id.struct = s}
Unannotated(fields) == \A i \in DOMAIN fields : fields[i].tag.text = "none"

\* C4 as stated: a call on a struct without any annotation succeeds and the
\* registry holds no collector of that struct.
C4_NoAnnotationNoCollector ==
    \A s \in StructIds :
        (ret.called /\ ret.arg = PtrTo(s) /\ Unannotated(structs[s].fields)) =>
            /\ ret.err = NoErr
            /\ FromStruct(s) = {}

\* C4 amended: a call on a struct without any annotation fails in no parse and
\* in no factory, only on a name the registry holds; when it succeeds, each
\* counter or histogram field holds a registered collector of the default
\* configuration and the registry holds as many collectors of the struct as it
\* has such fields: none exactly when it has none, and then it succeeds.
C4_NoAnnotationDefaultCollectors ==
    \A s \in StructIds :
        (ret.called /\ ret.arg = PtrTo(s) /\ Unannotated(structs[s].fields)) =>
            /\ ret.err.sentinel \in {"nil", "RegistrationConflict"}
            /\ CollectorFields(s) = {} => (ret.err = NoErr /\ FromStruct(s) = {})
            /\ ret.err = NoErr =>
                 /\ Cardinality(FromStruct(s)) = Cardinality(CollectorFields(s))
                 /\ \A i \in CollectorFields(s) :
                      LET c == structs[s].vals[i]
                      IN  /\ c \in registry
                          /\ c.name = ToSnake(structs[s].fields[i].name)
                          /\ c.help = <<>>
                          /\ c.labels = <<>>
                          /\ c.buckets = IF c.kind = "HistogramVec" THEN DefaultBuckets ELSE <<>>

\* a struct {M int; Ab *CounterVec} without annotations: one collector, named ab
C4_Witness ==
    /\ ret.called
    /\ ret.arg = PtrTo(1)
    /\ ret.err = NoErr
    /\ structs[1].fields = <<FieldM, FieldAb>>
    /\ structs[1].vals[2].name = <<"a", "b">>
    /\ FromStruct(1) = {structs[1].vals[2]}

Without(seq, i) == [j \in 1..(Len(seq) - 1) |-> IF j < i THEN seq[j] ELSE seq[j + 1]]
StripId(c) == [c EXCEPT !.id = NoID]
StripIds(seq) == [j \in DOMAIN seq |-> StripId(seq[j])]

\* the call on struct s leaves its field i alone and ends as the same call on
\* the struct without field i: same error, same collectors built and registered
AsIfAbsent(s, i) ==
    LET alt == RegisterMetrics(PtrTo(s),
                   [structs EXCEPT ![s] = [fields |-> Without(structs[s].fields, i),
                                           vals |-> Without(structs[s].vals, i)]],
                   registry, calls + 1)
    IN  /\ structs'[s].vals[i] = structs[s].vals[i]
        /\ \A c \in registry' : ~(c.id.struct = s /\ c.id.field = i)
        /\ ret'.err.field # structs[s].fields[i].name
        /\ ret'.err = alt.err
        /\ {StripId(c) : c \in registry'} = {StripId(c) : c \in alt.reg}
        /\ StripIds(Without(structs'[s].vals, i)) = StripIds(alt.structs[s].vals)

\* C5 as stated: whatever the annotation text of a field of another type, a
\* call never writes the field, registers nothing for it, returns no error on
\* its account and treats the other fields as if it were absent.
C5_OtherTypeFieldIgnored ==
    [][\A s \in StructIds : \A i \in DOMAIN structs[s].fields \ CollectorFields(s) :
         Calling(PtrTo(s)) => AsIfAbsent(s, i)]_vars

\* C5 amended: the same for a field of another type whose annotation is absent
\* or parses.
C5_ParsedOtherTypeFieldIgnored ==
    [][\A s \in StructIds : \A i \in DOMAIN structs[s].fields \ CollectorFields(s) :
         (Calling(PtrTo(s)) /\ structs[s].fields[i].tag.text # "unparseable")
             => AsIfAbsent(s, i)]_vars

\* struct {N int `misery:"name=ab"`; Cn *CounterVec `misery:"name=ab,..."`}:
\* N is untouched and Cn is registered under ab
C5_Witness ==
    /\ ret.called
    /\ ret.arg = PtrTo(1)
    /\ ret.err = NoErr
    /\ structs[1].fields = <<FieldN, FieldCn>>
    /\ structs[1].vals[1] = NilCollector
    /\ structs[1].vals[2] \in registry
    /\ FromStruct(1) = {structs[1].vals[2]}

AllowList(type) ==
    IF type = prometheusCounterType THEN {"name", "labels", "help"}
    ELSE {"name", "labels", "help", "buckets"}

\* clause u of field f has a name outside the allow-list of the field's kind
\* and the clauses before it are accepted
FirstRejectedClauseIs(f, u) ==
    /\ f.tag.text = "ok"
    /\ u \in DOMAIN f.tag.defs
    /\ f.tag.defs[u].name \notin AllowList(f.type)
    /\ Factory(f.type, f.name, SubSeq(f.tag.defs, 1, u - 1)).err = NoErr

\* C2: when the call reaches a counter or histogram field with a clause whose
\* name is outside the kind's allow-list, it fails with an error of the kind
\* UnsupportedAttribute (not AttributeMalformed) naming the attribute, and the
\* call registers nothing for that field or a later one.
C2_UnsupportedAttributeKind ==
    \A s \in StructIds : \A k \in CollectorFields(s) :
        \A u \in DOMAIN structs[s].fields[k].tag.defs :
            (/\ ret.called /\ ret.arg = PtrTo(s)
             /\ Parses(structs[s].fields)
             /\ FirstRejectedClauseIs(structs[s].fields[k], u)
             /\ \A j \in CollectorFields(s) : j < k =>
                    (structs[s].vals[j].id.call = calls /\ structs[s].vals[j] \in registry))
            =>
            /\ ret.err.sentinel = "UnsupportedAttribute"
            /\ ret.err.attr = structs[s].fields[k].tag.defs[u].name
            /\ \A c \in FromStruct(s) : c.id.call = calls => c.id.field < k

=============================================================================
